---- MODULE Spec2Model ----
(***************************************************************************)
(* Model of the document ingestion pipeline and watch engine of            *)
(* document_agent_service: the document store (MongoDocRepo), the parser   *)
(* registry, and the filesystem event handlers of DocumentHandler.         *)
(*                                                                         *)
(* Paths are sequences of one-character strings, so that str.startswith,   *)
(* Path.name, Path.suffix and str.lower are computed as the code computes  *)
(* them.  A file's content is a number in 1..MaxContent, 0 is "no file".   *)
(***************************************************************************)
EXTENDS Integers, Sequences, FiniteSets, TLC

\* ---------------------------------------------------------------- bounds
MaxContent == 2
MaxTasks == 2

\* filesystem notifications dispatched in a concurrent run
MaxEvents == 3

\* summary lengths requested through set_summary
MaxLength == 2

\* ----------------------------------------------------------------- paths
Sep == "/"

\* os.path.join(root, filename)
Join(dir, name) == dir \o <<Sep>> \o name

\* Settings.watch_folder (an absolute path)
WatchFolder == <<Sep, "w">>

DirA == Join(WatchFolder, <<"a">>)
DirAB == Join(WatchFolder, <<"a", "b">>)

FileX == Join(DirA, <<"x", ".", "t">>)
FileZ == Join(DirAB, <<"z", ".", "T">>)
FileN == Join(WatchFolder, <<"n", ".", "b">>)

Files == {FileX, FileZ, FileN}

\* the file of directory a after the directory has been renamed to ab
FileY == Join(DirAB, <<"x", ".", "t">>)

AllFiles == Files \cup {FileY}
Dirs == {WatchFolder, DirA, DirAB}

NoFile == 0
Contents == 1..MaxContent

\* str.startswith
StartsWith(s, prefix) ==
  /\ Len(prefix) <= Len(s)
  /\ SubSeq(s, 1, Len(prefix)) = prefix

\* positions of character ch in s
Positions(s, ch) == {i \in 1..Len(s) : s[i] = ch}

Max(S) == CHOOSE m \in S : \A n \in S : n <= m

\* Path.name: the final path component
PathName(p) ==
  IF Positions(p, Sep) = {} THEN p
  ELSE SubSeq(p, Max(Positions(p, Sep)) + 1, Len(p))

\* Path.suffix: the final component's last dot and what follows it, empty
\* when there is no dot, or the only dot leads or ends the name
PathSuffix(p) ==
  LET name == PathName(p)
      dots == Positions(name, ".")
  IN IF dots = {} THEN <<>>
     ELSE IF Max(dots) = 1 \/ Max(dots) = Len(name) THEN <<>>
     ELSE SubSeq(name, Max(dots), Len(name))

LowerChar(c) ==
  CASE c = "T" -> "t"
    [] c = "B" -> "b"
    [] OTHER -> c

\* str.lower
Lower(s) == [i \in 1..Len(s) |-> LowerChar(s[i])]

\* Path(file_path).name of each file
NameOf == [p \in AllFiles |-> PathName(p)]

\* path.suffix.lower() of each file
SuffixOf == [p \in AllFiles |-> Lower(PathSuffix(p))]

\* os.walk(dir_path): the files located in the directory tree of dir
InsideDir(p, dir) == StartsWith(p, dir \o <<Sep>>)

\* -------------------------------------------------------------- registry
\* REGISTRY as filled by the @register decorators (".t" stands for the
\* registered text suffixes)
REGISTRY == {<<".", "t">>}

InRegistryAlways(suffix) == TRUE

InRegistry(suffix) == suffix \in REGISTRY

Supported(p) == InRegistry(SuffixOf[p])

\* ----------------------------------------------------------------- parse
\* text extracted by a parser from a file of content c
TextOf(c) == <<c>>

\* hashlib.md5(text.encode()).hexdigest()
MD5(text) == <<"md5">> \o text

\* mime_types.get(suffix, "text/plain")
MimeOf(suffix) ==
  CASE suffix = <<".", "t">> -> "text/plain"
    [] OTHER -> "text/plain"

ParsePathId(p, c) ==
  [id |-> MD5(p \o TextOf(c)),
   filename |-> NameOf[p],
   path |-> p,
   text |-> TextOf(c),
   metadata |-> [filename |-> NameOf[p],
                 size_bytes |-> Len(TextOf(c)),
                 mime |-> MimeOf(SuffixOf[p])],
   keywords |-> <<>>,
   topics |-> <<>>,
   summary |-> <<>>]

\* TextParser.parse: the ParsedDocument of the file at p holding content c
Parse(p, c) ==
  [id |-> MD5(TextOf(c)),
   filename |-> NameOf[p],
   path |-> p,
   text |-> TextOf(c),
   metadata |-> [filename |-> NameOf[p],
                 size_bytes |-> Len(TextOf(c)),
                 mime |-> MimeOf(SuffixOf[p])],
   keywords |-> <<>>,
   topics |-> <<>>,
   summary |-> <<>>]

\* extract_document_info: the DocumentExtraction derived from a text
ExtractDocumentInfo(text) ==
  [keywords |-> <<<<"k">> \o text>>,
   topics |-> <<<<"t">> \o text>>,
   summary |-> <<"s">> \o text]

\* process_file lines 205-208: the parsed document with enrichment merged
Enriched(doc) ==
  LET info == ExtractDocumentInfo(doc.text)
  IN [doc EXCEPT !.keywords = info.keywords,
                 !.topics = info.topics,
                 !.summary = info.summary]

\* ----------------------------------------------------------------- store
\* The docs collection: a set of records with pairwise distinct ids.

\* MongoDocRepo.get_id_by_path: the ids find_one may return (any match)
IdsByPath(st, p) == {r.id : r \in {x \in st : x.path = p}}

\* the ids of the stored documents
IdsOf(st) == {r.id : r \in st}

\* MongoDocRepo.delete_by_path
DeleteByPathNone(st, p) == st

DeleteByPath(st, p) == {r \in st : r.path # p}

\* MongoDocRepo.delete
Delete(st, id) == {r \in st : r.id # id}

\* MongoDocRepo.upsert for a document with a non-empty id: replace_one by
\* _id with upsert=True
UpsertNone(st, doc) == st

UpsertInsert(st, doc) == st \cup {doc}

Upsert(st, doc) == {r \in st : r.id # doc.id} \cup {doc}

\* MongoDocRepo.upsert: a document without an id is given uuid4().hex
\* first; the id is returned
StoreUpsert(st, doc, uuid) ==
  LET d == IF doc.id = <<>> THEN [doc EXCEPT !.id = uuid] ELSE doc
  IN [store |-> Upsert(st, d), id |-> d.id]

\* ParsedDocument(**raw): the model has the eight fields below and ignores
\* any other key of the stored document
AsParsedDocument(raw) ==
  [id |-> raw.id,
   filename |-> raw.filename,
   path |-> raw.path,
   text |-> raw.text,
   metadata |-> raw.metadata,
   keywords |-> raw.keywords,
   topics |-> raw.topics,
   summary |-> raw.summary]

\* the "summaries" sub-document of a stored document: length -> summary
SummariesOf(raw) ==
  IF "summaries" \in DOMAIN raw THEN raw.summaries ELSE <<>>

\* the stored document made of the fields of doc and the summaries m
Stored(doc, m) ==
  IF DOMAIN m = {} THEN doc
  ELSE [id |-> doc.id,
        filename |-> doc.filename,
        path |-> doc.path,
        text |-> doc.text,
        metadata |-> doc.metadata,
        keywords |-> doc.keywords,
        topics |-> doc.topics,
        summary |-> doc.summary,
        summaries |-> m]

\* $set of "summaries.<length>"
WithEntry(m, length, summary) ==
  [l \in DOMAIN m \cup {length} |-> IF l = length THEN summary ELSE m[l]]

SetSummaryReplace(st, id, length, summary) ==
  {IF r.id = id
   THEN Stored(AsParsedDocument(r), WithEntry(<<>>, length, summary))
   ELSE r : r \in st}

\* MongoDocRepo.set_summary: update_one by _id, without upsert
SetSummary(st, id, length, summary) ==
  {IF r.id = id
   THEN Stored(AsParsedDocument(r),
               WithEntry(SummariesOf(r), length, summary))
   ELSE r : r \in st}

\* MongoDocRepo.get
Get(st, id) == {AsParsedDocument(r) : r \in {x \in st : x.id = id}}

\* the raw documents find(..., {"text": 0}) returns, made ParsedDocuments
\* with an empty text
Blanked(raws) ==
  {[id |-> r.id,
    filename |-> r.filename,
    path |-> r.path,
    text |-> <<>>,
    metadata |-> r.metadata,
    keywords |-> r.keywords,
    topics |-> r.topics,
    summary |-> r.summary] : r \in raws}

\* MongoDocRepo.list_meta: every record with the text blanked
ListMeta(st) == Blanked(st)

\* an argument left at its default None
NoneArg == <<"None">>

\* Python truth of a str-or-None argument
Truthy(x) == x # NoneArg /\ x # <<>>

\* a list field holds the value (MongoDB equality match on an array)
Contains(list, x) == \E i \in 1..Len(list) : list[i] = x

\* MongoDocRepo.query: ValueError when both arguments are None; a "$or"
\* clause for each truthy argument; find with an empty "$or" array is
\* rejected by the server
Query(st, topic, keyword) ==
  IF topic = NoneArg /\ keyword = NoneArg
  THEN [error |-> "ValueError", result |-> {}]
  ELSE IF ~Truthy(topic) /\ ~Truthy(keyword)
  THEN [error |-> "OperationFailure", result |-> {}]
  ELSE [error |-> "none",
        result |-> Blanked({r \in st :
                     \/ Truthy(topic) /\ Contains(r.topics, topic)
                     \/ Truthy(keyword) /\ Contains(r.keywords, keyword)})]

\* DocumentHandler._cleanup_deleted_files_in_directory: delete every listed
\* record whose path starts with dir_path and is not an observed file
CleanupNone(st, dir, existing) == st

Cleanup(st, dir, existing) ==
  LET orphans == {doc \in ListMeta(st) : /\ doc.path # <<>>
                                         /\ StartsWith(doc.path, dir)
                                         /\ doc.path \notin existing}
  IN {r \in st : r.id \notin {doc.id : doc \in orphans}}

\* -------------------------------------------------------------- pipeline
\* The failure a pipeline run meets, if it gets that far: the parser raises,
\* or the enrichment call raises
Failures == {"none", "parse", "enrich"}

\* process_file lines 203-214: enrich, merge and upsert; an enrichment
\* failure is caught by the handler's except clause before any write
PersistPartial(st, doc, fail) ==
  IF fail # "enrich"
  THEN [store |-> Upsert(st, Enriched(doc)), outcome |-> "ingested"]
  ELSE [store |-> Upsert(st, doc), outcome |-> "enrich_error"]

Persist(st, doc, fail) ==
  IF fail # "enrich"
  THEN [store |-> Upsert(st, Enriched(doc)), outcome |-> "ingested"]
  ELSE [store |-> st, outcome |-> "enrich_error"]

\* process_file lines 188-214, entered once the existence check has let
\* the file through: registry check, parse, enrich, upsert
Ingest(st, fsys, p, fail) ==
  IF ~Supported(p)
  THEN [store |-> st, outcome |-> "unsupported"]
  ELSE IF fsys[p] = NoFile \/ fail = "parse"
  THEN [store |-> st, outcome |-> "parse_error"]
  ELSE Persist(st, Parse(p, fsys[p]), fail)

ProcessFileRestoring(st, fsys, p, force, fail) ==
  IF IdsByPath(st, p) # {}
  THEN IF force
       THEN LET res == Ingest(DeleteByPath(st, p), fsys, p, fail)
            IN IF res.outcome = "ingested" THEN res
               ELSE [store |-> st, outcome |-> res.outcome]
       ELSE [store |-> st, outcome |-> "skipped"]
  ELSE Ingest(st, fsys, p, fail)

\* DocumentHandler.process_file
ProcessFile(st, fsys, p, force, fail) ==
  IF IdsByPath(st, p) # {}
  THEN IF force
       THEN Ingest(DeleteByPath(st, p), fsys, p, fail)
       ELSE [store |-> st, outcome |-> "skipped"]
  ELSE Ingest(st, fsys, p, fail)

\* DocumentHandler.handle_deleted_file, id being the id get_id_by_path
\* returned (used only when a record has the path)
HandleDeletedFile(st, p, id) ==
  IF IdsByPath(st, p) # {}
  THEN [store |-> Delete(st, id), outcome |-> "deleted"]
  ELSE [store |-> st, outcome |-> "not_found"]

\* handle_moved_file lines 258-260: the fetched document with its path,
\* and its filename when the name changed, updated
Relocated(doc, src, dest) ==
  [doc EXCEPT !.path = dest,
              !.filename = IF NameOf[src] # NameOf[dest]
                           THEN NameOf[dest] ELSE @]

\* DocumentHandler.handle_moved_file, id being the id get_id_by_path
\* returned for src (used only when a record has that path)
HandleMovedFile(st, fsys, src, dest, id, fail) ==
  IF IdsByPath(st, src) # {}
  THEN IF Get(st, id) # {}
       THEN [store |-> Upsert(st, Relocated(CHOOSE d \in Get(st, id) : TRUE,
                                            src, dest)),
             outcome |-> "moved"]
       ELSE ProcessFile(st, fsys, dest, FALSE, fail)
  ELSE ProcessFile(st, fsys, dest, FALSE, fail)

\* ----------------------------------------------------------------- state
VARIABLES
  fs,       \* the watch folder: file path -> content, NoFile when absent
  store,    \* the docs collection
  phase,    \* watcher life cycle: "stopped", "watching"
  pending,  \* the filesystem notification being delivered, if any
  last,     \* the handler call that completed last and what it saw
  tasks,    \* the coroutines in flight on the event loop
  events    \* the number of notifications dispatched to the event loop

vars == <<fs, store, phase, pending, last, tasks, events>>

NoEvent == [kind |-> "none", src |-> <<>>, dest |-> <<>>, prev |-> "none"]

NoOp == [op |-> "none", path |-> <<>>, dest |-> <<>>, force |-> FALSE,
         outcome |-> "none",
         prevOutcome |-> "none", pre |-> {}, before |-> {}, files |-> {},
         failed |-> {}, cancelled |-> <<>>, src |-> <<>>, post |-> {},
         disk |-> {}]

\* os.walk(dir_path) at the present state of the watch folder
Walk(dir) == {p \in Files : fs[p] # NoFile /\ InsideDir(p, dir)}

Init ==
  /\ fs = [p \in Files |-> NoFile]
  /\ store = {}
  /\ phase = "stopped"
  /\ pending = NoEvent
  /\ last = NoOp
  /\ tasks = <<>>
  /\ events = 0

\* ------------------------------------------------- the sequential engine
\* Spec: notifications are handled one at a time, each handler running to
\* its end before the next filesystem change.

Quiet == pending = NoEvent

\* no notification is being delivered and no completed call is remembered
Idle == Quiet /\ last = NoOp

\* the path on which call l ran the create flow process_file(path, False):
\* directly, or as the fallback of handle_moved_file; <<>> if it ran none
CreatePath(l) ==
  IF l.op = "process_file" /\ ~l.force THEN l.path
  ELSE IF l.op = "handle_moved_file" /\ l.outcome # "moved" THEN l.dest
  ELSE <<>>

\* the outcome of the previous call when it ran the create flow on p
PrevOutcome(p) ==
  IF CreatePath(last) = p THEN last.outcome ELSE "none"

\* the notification watchdog emits for a change, none while not watching;
\* prev tells a create flow that follows a create flow on the same,
\* unchanged file
NotifyAlways(kind, src, dest, prev) ==
  [kind |-> kind, src |-> src, dest |-> dest, prev |-> prev]

Notify(kind, src, dest, prev) ==
  IF phase = "watching"
  THEN [kind |-> kind, src |-> src, dest |-> dest, prev |-> prev]
  ELSE NoEvent

\* a file appears in the watch folder, created there or moved in from
\* outside (replacing a file of that name); it may follow at once the
\* create flow on the same file when it leaves the file as it is
FsCreate(p, c) ==
  /\ Quiet
  /\ last = NoOp \/ (CreatePath(last) = p /\ fs[p] = c)
  /\ fs' = [fs EXCEPT ![p] = c]
  /\ pending' = Notify("created", p, <<>>, PrevOutcome(p))
  /\ last' = NoOp
  /\ UNCHANGED <<store, phase, tasks, events>>

\* a file is rewritten
FsModify(p, c) ==
  /\ Idle
  /\ fs[p] # NoFile
  /\ fs' = [fs EXCEPT ![p] = c]
  /\ pending' = Notify("modified", p, <<>>, "none")
  /\ UNCHANGED <<store, phase, last, tasks, events>>

\* a file is removed
FsDelete(p) ==
  /\ Idle
  /\ fs[p] # NoFile
  /\ fs' = [fs EXCEPT ![p] = NoFile]
  /\ pending' = Notify("deleted", p, <<>>, "none")
  /\ UNCHANGED <<store, phase, last, tasks, events>>

\* a file is renamed, replacing the destination if it exists
FsMove(p, q) ==
  /\ Idle
  /\ p # q
  /\ fs[p] # NoFile
  /\ fs' = [fs EXCEPT ![q] = fs[p], ![p] = NoFile]
  /\ pending' = Notify("moved", p, q, "none")
  /\ UNCHANGED <<store, phase, last, tasks, events>>

\* a folder is copied into the watch folder with its files: one directory
\* notification for the new folder
FsCopyDir(d, content) ==
  /\ Idle
  /\ phase = "watching"
  /\ d # WatchFolder
  /\ \A p \in Files : InsideDir(p, d) => fs[p] = NoFile
  /\ fs' = [p \in Files |-> IF InsideDir(p, d) THEN content ELSE fs[p]]
  /\ pending' = Notify("dir_created", d, <<>>, "none")
  /\ UNCHANGED <<store, phase, last, tasks, events>>

\* the completed call is no longer the last thing that happened
Forget ==
  /\ Quiet
  /\ last # NoOp
  /\ last' = NoOp
  /\ UNCHANGED <<fs, store, phase, pending, tasks, events>>

\* on_created / on_modified of a file: process_file run to its end
OnFile(force, fail) ==
  /\ pending.kind = (IF force THEN "modified" ELSE "created")
  /\ LET p == pending.src
         res == ProcessFile(store, fs, p, force, fail)
     IN /\ store' = res.store
        /\ last' = [NoOp EXCEPT !.op = "process_file", !.path = p,
                                !.force = force, !.outcome = res.outcome,
                                !.prevOutcome = pending.prev,
                                !.pre = store]
  /\ pending' = NoEvent
  /\ UNCHANGED <<fs, phase, tasks, events>>

\* on_deleted of a file: handle_deleted_file run to its end
OnDeleted ==
  /\ pending.kind = "deleted"
  /\ LET p == pending.src
     IN \E id \in IdsByPath(store, p) \cup {<<>>} :
          /\ (id = <<>>) <=> (IdsByPath(store, p) = {})
          /\ LET res == HandleDeletedFile(store, p, id)
             IN /\ store' = res.store
                /\ last' = [NoOp EXCEPT !.op = "handle_deleted_file",
                                        !.path = p,
                                        !.outcome = res.outcome,
                                        !.pre = store]
  /\ pending' = NoEvent
  /\ UNCHANGED <<fs, phase, tasks, events>>

\* on_moved of a file: handle_moved_file run to its end
OnMoved(fail) ==
  /\ pending.kind = "moved"
  /\ LET src == pending.src
         dest == pending.dest
     IN \E id \in IdsByPath(store, src) \cup {<<>>} :
          /\ (id = <<>>) <=> (IdsByPath(store, src) = {})
          /\ LET res == HandleMovedFile(store, fs, src, dest, id, fail)
             IN /\ store' = res.store
                /\ last' = [NoOp EXCEPT !.op = "handle_moved_file",
                                        !.path = src, !.dest = dest,
                                        !.outcome = res.outcome,
                                        !.pre = store]
  /\ pending' = NoEvent
  /\ UNCHANGED <<fs, phase, tasks, events>>

\* os.path.dirname
Parent(p) == SubSeq(p, 1, Max(Positions(p, Sep)) - 1)

\* the orders in which os.walk (top-down) may yield the files of S: the
\* files of a directory come before the files of its subdirectories,
\* entries of one directory in any order
Orders(S) ==
  {o \in [1..Cardinality(S) -> S] :
     /\ \A i, j \in 1..Cardinality(S) : o[i] = o[j] => i = j
     /\ \A i, j \in 1..Cardinality(S) :
          (i < j /\ InsideDir(o[i], Parent(o[j])))
            => Parent(o[i]) = Parent(o[j])}

WalkOrders == [S \in SUBSET AllFiles |-> Orders(S)]

\* the outcomes of process_file that its except clause produces
Errors == {"parse_error", "enrich_error"}

\* the files of Head(order) alone or none, as process_file ended in its
\* except clause or not
FailedHere(res, order) ==
  IF res.outcome \in Errors THEN {Head(order)} ELSE {}

RECURSIVE ScanFilesAbort(_, _, _, _)
ScanFilesAbort(st, fsys, order, fails) ==
  IF order = <<>> THEN [store |-> st, failed |-> {}]
  ELSE LET res == ProcessFile(st, fsys, Head(order), FALSE,
                              fails[Head(order)])
       IN IF res.outcome \in Errors
          THEN [store |-> res.store, failed |-> {Head(order)}]
          ELSE ScanFilesAbort(res.store, fsys, Tail(order), fails)

\* process_directory lines 135-140: process_file on each walked file in
\* turn, fails telling which files meet a parse or enrichment failure;
\* yields the store after the loop and the files on which process_file
\* caught an exception
RECURSIVE ScanFiles(_, _, _, _)
ScanFiles(st, fsys, order, fails) ==
  IF order = <<>> THEN [store |-> st, failed |-> {}]
  ELSE LET res == ProcessFile(st, fsys, Head(order), FALSE,
                              fails[Head(order)])
           rest == ScanFiles(res.store, fsys, Tail(order), fails)
       IN [store |-> rest.store,
           failed |-> FailedHere(res, order) \cup rest.failed]

\* DocumentHandler.process_directory run to its end: the per-file loop in
\* some walk order, with some files failing, then the reconciliation sweep
ProcessDirectory(dir) ==
  LET walked == Walk(dir)
  IN \E order \in WalkOrders[walked], fails \in [walked -> Failures] :
       LET scanned == ScanFiles(store, fs, order, fails)
       IN /\ store' = Cleanup(scanned.store, dir, walked)
          /\ last' = [NoOp EXCEPT !.op = "process_directory", !.path = dir,
                                  !.files = walked, !.before = store,
                                  !.pre = scanned.store,
                                  !.failed = scanned.failed]

\* on_created of a directory: process_directory run to its end
OnDirCreated ==
  /\ pending.kind = "dir_created"
  /\ ProcessDirectory(pending.src)
  /\ pending' = NoEvent
  /\ UNCHANGED <<fs, phase, tasks, events>>

\* LocalDocumentWatcher.start: the watch folder is created, the loop is
\* bound, scan_directory(watch folder) runs to its end, then the observer
\* is scheduled and started
Start ==
  /\ phase = "stopped"
  /\ Idle
  /\ ProcessDirectory(WatchFolder)
  /\ phase' = "watching"
  /\ UNCHANGED <<fs, pending, tasks, events>>

\* LocalDocumentWatcher.stop: observer.stop and observer.join
Stop ==
  /\ phase = "watching"
  /\ Idle
  /\ phase' = "stopped"
  /\ UNCHANGED <<fs, store, pending, last, tasks, events>>

Next ==
  \/ \E p \in Files, c \in Contents : FsCreate(p, c)
  \/ \E p \in Files, c \in Contents : FsModify(p, c)
  \/ \E p \in Files : FsDelete(p)
  \/ \E p \in Files, q \in Files : FsMove(p, q)
  \/ \E d \in Dirs, content \in Contents : FsCopyDir(d, content)
  \/ \E force \in BOOLEAN, fail \in Failures : OnFile(force, fail)
  \/ OnDeleted
  \/ \E fail \in Failures : OnMoved(fail)
  \/ OnDirCreated
  \/ Start
  \/ Stop
  \/ Forget

Spec == Init /\ [][Next]_vars

\* the shape of the state
TypeOK ==
  /\ fs \in [Files -> Contents \cup {NoFile}]
  /\ \A r \in store : r.path \in Files /\ r.id \in {MD5(TextOf(c)) : c \in Contents}
  /\ phase \in {"stopped", "scanning", "watching", "unbound", "detached",
               "exited"}
  /\ pending.kind \in {"none", "created", "modified", "deleted", "moved",
                      "dir_created"}
  /\ last.op \in {"none", "process_file", "handle_deleted_file",
                  "handle_moved_file", "process_directory"}
  /\ Len(tasks) <= MaxTasks
  /\ events \in 0..MaxEvents

\* ------------------------------------------------- the concurrent engine
\* ConcSpec: the observer thread hands each notification to the event loop
\* as a task (_run_coroutine, run_coroutine_threadsafe) and returns; the
\* tasks in flight interleave at their awaits.  A task is at the store
\* call or pipeline step named by its pc.

NoDoc == [id |-> <<>>]

NewTask(kind, path, dest, force) ==
  [kind |-> kind, path |-> path, dest |-> dest, force |-> force,
   pc |-> "lookup", id |-> <<>>, doc |-> NoDoc, waited |-> FALSE,
   mode |-> "scheduled", dir |-> <<>>, todo |-> {}, queue |-> <<>>,
   existing |-> {}, src |-> <<>>]

ConcInit ==
  /\ fs = [p \in Files |-> NoFile]
  /\ store = {}
  /\ phase = "watching"
  /\ pending = NoEvent
  /\ last = NoOp
  /\ tasks = <<>>
  /\ events = 0

\* the handler's loop: set by LocalDocumentWatcher.start before the observer
\* is scheduled, and running for as long as WatcherApp.start sleeps in it.
\* A handler used without start() has no loop ("unbound"), or was given,
\* by set_loop, a loop that is not running ("detached")
LoopSet == phase \in {"scanning", "watching", "detached"}

LoopRunning == phase \in {"scanning", "watching"}

\* the observer is delivering notifications to the handler: from
\* observer.schedule / observer.start, after the startup scan, until
\* observer.stop / observer.join
DispatchingEarly == phase \notin {"stopped", "exited"}

Dispatching == phase \notin {"stopped", "scanning", "exited"}

RunCoroutineBlocking(loopSet, loopRunning) == "run"

\* _run_coroutine: how the callback hands the coroutine over.  "result":
\* no loop known, run_coroutine_threadsafe on a new loop and wait for
\* future.result(); "scheduled": run_coroutine_threadsafe on the running
\* loop, the future is returned at once; "run": asyncio.run(coro), which
\* returns when the coroutine has finished
RunCoroutine(loopSet, loopRunning) ==
  IF ~loopSet THEN "result"
  ELSE IF loopRunning THEN "scheduled"
  ELSE "run"

\* a callback on the observer thread hands a task over; the thread
\* dispatches the next notification only once the callback has returned
Spawn(task) ==
  /\ Dispatching
  /\ Len(tasks) < MaxTasks
  /\ events < MaxEvents
  /\ \A i \in 1..Len(tasks) : ~tasks[i].waited
  /\ tasks' = Append(tasks,
                     [task EXCEPT !.waited =
                        RunCoroutine(LoopSet, LoopRunning) # "scheduled",
                                  !.mode = RunCoroutine(LoopSet, LoopRunning)])
  /\ events' = events + 1
  /\ UNCHANGED <<store, phase, pending, last>>

\* sequence s without its i-th element
Without(s, i) == SubSeq(s, 1, i - 1) \o SubSeq(s, i + 1, Len(s))

\* task i is on a loop that runs it: the main loop, or the loop of
\* asyncio.run; the loop made by asyncio.new_event_loop() for
\* run_coroutine_threadsafe is never run by anyone
Runs(i) == i \in 1..Len(tasks) /\ tasks[i].mode # "result"

\* the coroutine task t goes on with: process_file(path) as a new file
Fallback(t, path) ==
  [NewTask("process_file", path, <<>>, FALSE) EXCEPT !.waited = t.waited,
                                                     !.mode = t.mode]

\* task i returns; a process_file awaited by process_directory returns
\* into its loop over the walk
Finish(i) ==
  tasks' = IF tasks[i].dir = <<>> THEN Without(tasks, i)
           ELSE [tasks EXCEPT ![i] = [@ EXCEPT !.kind = "process_directory",
                                               !.pc = "walk",
                                               !.path = <<>>,
                                               !.doc = NoDoc]]

\* task i moves on
Goto(i, t) == tasks' = [tasks EXCEPT ![i] = t]

\* on_created of a file: process_file(src_path) is scheduled
WatchCreate(p, c) ==
  /\ fs' = [fs EXCEPT ![p] = c]
  /\ Spawn(NewTask("process_file", p, <<>>, FALSE))

\* on_modified of a file: process_file(src_path, force_update=True)
WatchModify(p, c) ==
  /\ fs[p] # NoFile
  /\ fs' = [fs EXCEPT ![p] = c]
  /\ Spawn(NewTask("process_file", p, <<>>, TRUE))

\* on_deleted of a file: handle_deleted_file(src_path)
WatchDelete(p) ==
  /\ fs[p] # NoFile
  /\ fs' = [fs EXCEPT ![p] = NoFile]
  /\ Spawn(NewTask("handle_deleted_file", p, <<>>, FALSE))

\* on_moved of a file: handle_moved_file(src_path, dest_path)
WatchMove(p, q) ==
  /\ p # q
  /\ fs[p] # NoFile
  /\ fs' = [fs EXCEPT ![q] = fs[p], ![p] = NoFile]
  /\ Spawn(NewTask("handle_moved_file", p, q, FALSE))

\* await db.get_id_by_path(path) and the branch taken on its result
StepLookup(i) ==
  /\ Runs(i)
  /\ tasks[i].pc = "lookup"
  /\ LET t == tasks[i]
         ids == IdsByPath(store, t.path)
     IN CASE t.kind = "process_file" ->
               IF ids # {}
               THEN IF t.force
                    THEN Goto(i, [t EXCEPT !.pc = "delete_by_path"])
                    ELSE Finish(i)
               ELSE Goto(i, [t EXCEPT !.pc = "parse"])
          [] t.kind = "handle_deleted_file" ->
               IF ids # {}
               THEN \E id \in ids : Goto(i, [t EXCEPT !.pc = "delete",
                                                     !.id = id])
               ELSE Finish(i)
          [] t.kind = "handle_moved_file" ->
               IF ids # {}
               THEN \E id \in ids : Goto(i, [t EXCEPT !.pc = "get",
                                                     !.id = id])
               ELSE Goto(i, Fallback(t, t.dest))
  /\ UNCHANGED <<fs, store, phase, pending, last, events>>

\* process_file line 183: await db.delete_by_path(file_path)
StepDeleteByPath(i) ==
  /\ Runs(i)
  /\ tasks[i].pc = "delete_by_path"
  /\ store' = DeleteByPath(store, tasks[i].path)
  /\ Goto(i, [tasks[i] EXCEPT !.pc = "parse"])
  /\ UNCHANGED <<fs, phase, pending, last, events>>

\* process_file lines 188-208: registry check, parse_file of the file as
\* it is now, await extract_document_info; the task ends here when the
\* extension is unsupported or an exception is caught
StepParse(i, fail) ==
  /\ Runs(i)
  /\ tasks[i].pc = "parse"
  /\ LET t == tasks[i]
     IN IF Supported(t.path) /\ fs[t.path] # NoFile /\ fail = "none"
        THEN Goto(i, [t EXCEPT !.pc = "upsert",
                               !.doc = Enriched(Parse(t.path, fs[t.path]))])
        ELSE Finish(i)
  /\ UNCHANGED <<fs, store, phase, pending, last, events>>

\* process_file line 211 / handle_moved_file line 263: await db.upsert(doc)
StepUpsert(i) ==
  /\ Runs(i)
  /\ tasks[i].pc = "upsert"
  /\ store' = Upsert(store, tasks[i].doc)
  /\ Finish(i)
  /\ UNCHANGED <<fs, phase, pending, last, events>>

\* handle_deleted_file line 229: await db.delete(doc_id)
StepDelete(i) ==
  /\ Runs(i)
  /\ tasks[i].pc = "delete"
  /\ store' = Delete(store, tasks[i].id)
  /\ Finish(i)
  /\ UNCHANGED <<fs, phase, pending, last, events>>

\* handle_moved_file lines 255-267: await db.get(doc_id); the document is
\* relocated, or, when it is gone, dest is processed as a new file
StepGet(i) ==
  /\ Runs(i)
  /\ tasks[i].pc = "get"
  /\ LET t == tasks[i]
         found == Get(store, t.id)
     IN IF found # {}
        THEN Goto(i, [t EXCEPT !.pc = "upsert",
                               !.doc = Relocated(CHOOSE d \in found : TRUE,
                                                 t.path, t.dest)])
        ELSE Goto(i, Fallback(t, t.dest))
  /\ UNCHANGED <<fs, store, phase, pending, last, events>>

ConcNext ==
  \/ \E p \in Files, c \in Contents : WatchCreate(p, c)
  \/ \E p \in Files, c \in Contents : WatchModify(p, c)
  \/ \E p \in Files : WatchDelete(p)
  \/ \E p \in Files, q \in Files : WatchMove(p, q)
  \/ \E i \in 1..MaxTasks : StepLookup(i)
  \/ \E i \in 1..MaxTasks : StepDeleteByPath(i)
  \/ \E i \in 1..MaxTasks, fail \in Failures : StepParse(i, fail)
  \/ \E i \in 1..MaxTasks : StepUpsert(i)
  \/ \E i \in 1..MaxTasks : StepDelete(i)
  \/ \E i \in 1..MaxTasks : StepGet(i)

ConcSpec == ConcInit /\ [][ConcNext]_vars

\* ----------------------------------------------------- end-to-end scenario
\* LiveSpec: start() has completed on an empty watch folder and an empty
\* store; files are added to the folder, each once, and nothing else
\* happens to them; parsers and enrichment succeed.  The event loop runs
\* every task that is ready (asyncio runs its ready callbacks in turn).

\* a file is added to the watch folder
LiveAdd(p, c) ==
  /\ fs[p] = NoFile
  /\ WatchCreate(p, c)

\* some task in flight takes its next step
LiveStep ==
  \E i \in 1..MaxTasks :
    StepLookup(i) \/ StepParse(i, "none") \/ StepUpsert(i)

LiveNext ==
  \/ \E p \in Files, c \in Contents : LiveAdd(p, c)
  \/ \E i \in 1..MaxTasks : StepLookup(i)
  \/ \E i \in 1..MaxTasks : StepParse(i, "none")
  \/ \E i \in 1..MaxTasks : StepUpsert(i)

LiveSpec == ConcInit /\ [][LiveNext]_vars /\ WF_vars(LiveStep)

\* ---------------------------------------------------- the scan as a task
\* process_directory as a coroutine: os.walk lists one directory at a time,
\* when the loop over the walk gets to it; process_file is awaited for each
\* listed file; the sweep runs when the walk is exhausted.

\* the directories os.walk(dir) goes through
DirsUnder(dir) == {d \in Dirs : d = dir \/ InsideDir(d, dir)}

\* the files a listing of directory d finds
Listed(d) == {p \in DOMAIN fs : fs[p] # NoFile /\ Parent(p) = d}

\* process_directory(dir) about to start its walk
NewScan(dir) ==
  [NewTask("process_directory", <<>>, <<>>, FALSE) EXCEPT
     !.pc = "walk", !.dir = dir, !.todo = DirsUnder(dir)]

\* process_directory lines 135-140, one turn of the loops: the next listed
\* file is recorded as existing and process_file is called on it; or the
\* next directory (the top one first) is listed; or the walk is over
ScanWalk(i) ==
  /\ Runs(i)
  /\ tasks[i].kind = "process_directory"
  /\ tasks[i].pc = "walk"
  /\ LET t == tasks[i]
     IN IF t.queue # <<>>
        THEN Goto(i, [t EXCEPT !.kind = "process_file",
                               !.pc = "lookup",
                               !.path = Head(t.queue),
                               !.queue = Tail(t.queue),
                               !.existing = @ \cup {Head(t.queue)}])
        ELSE IF t.todo # {}
        THEN \E d \in t.todo :
               /\ t.dir \in t.todo => d = t.dir
               /\ \E order \in WalkOrders[Listed(d)] :
                    Goto(i, [t EXCEPT !.todo = @ \ {d}, !.queue = order])
        ELSE Goto(i, [t EXCEPT !.pc = "sweep"])
  /\ UNCHANGED <<fs, store, phase, pending, last, events>>

\* process_directory line 143: _cleanup_deleted_files_in_directory with
\* the paths the walk has seen; process_directory returns
ScanSweep(i) ==
  /\ Runs(i)
  /\ tasks[i].pc = "sweep"
  /\ store' = Cleanup(store, tasks[i].dir, tasks[i].existing)
  /\ tasks' = Without(tasks, i)
  /\ last' = [NoOp EXCEPT !.op = "process_directory",
                          !.path = tasks[i].dir,
                          !.src = tasks[i].src,
                          !.files = tasks[i].existing,
                          !.disk = {p \in DOMAIN fs : fs[p] # NoFile},
                          !.pre = store,
                          !.post = Cleanup(store, tasks[i].dir,
                                           tasks[i].existing)]
  /\ UNCHANGED <<fs, phase, pending, events>>

\* -------------------------------------------------------------- start-up
\* StartupSpec: LocalDocumentWatcher.start step by step on a watch folder
\* to which files are added, each once, at any moment; parsers and
\* enrichment succeed.  A file added while no observer is running raises
\* no notification.

\* a file is added to the watch folder while the observer is not running
Appear(p, c) ==
  /\ ~Dispatching
  /\ fs[p] = NoFile
  /\ fs' = [fs EXCEPT ![p] = c]
  /\ UNCHANGED <<store, phase, pending, last, tasks, events>>

\* start() lines 36-44: the watch folder is made, the loop is set in the
\* handler, and scan_directory(watch_path) is awaited
StartBegin ==
  /\ phase = "stopped"
  /\ tasks = <<>>
  /\ phase' = "scanning"
  /\ tasks' = <<NewScan(WatchFolder)>>
  /\ UNCHANGED <<fs, store, pending, last, events>>

\* start() lines 47-48, once scan_directory has returned: observer.schedule
\* and observer.start
StartEnd ==
  /\ phase = "scanning"
  /\ tasks = <<>>
  /\ phase' = "watching"
  /\ UNCHANGED <<fs, store, pending, last, tasks, events>>

\* the loop runs a task, or start() goes on after its await
StartupStep ==
  \/ \E i \in 1..MaxTasks :
       \/ ScanWalk(i)
       \/ ScanSweep(i)
       \/ StepLookup(i)
       \/ StepParse(i, "none")
       \/ StepUpsert(i)
  \/ StartEnd

StartupNext ==
  \/ \E p \in Files, c \in Contents : Appear(p, c)
  \/ StartBegin
  \/ \E p \in Files, c \in Contents : LiveAdd(p, c)
  \/ \E i \in 1..MaxTasks : ScanWalk(i)
  \/ \E i \in 1..MaxTasks : ScanSweep(i)
  \/ \E i \in 1..MaxTasks : StepLookup(i)
  \/ \E i \in 1..MaxTasks : StepParse(i, "none")
  \/ \E i \in 1..MaxTasks : StepUpsert(i)
  \/ StartEnd

StartupSpec == Init /\ [][StartupNext]_vars /\ WF_vars(StartupStep)

\* ------------------------------------------------------ directory events
\* DirSpec: the watcher is watching; files are created, folders are
\* created (empty, or copied in with their files) and renamed.  A
\* directory notification schedules process_directory as one more task.

DirInit ==
  /\ fs = [p \in AllFiles |-> NoFile]
  /\ store = {}
  /\ phase = "watching"
  /\ pending = NoEvent
  /\ last = NoOp
  /\ tasks = <<>>
  /\ events = 0

\* on_created of a directory: process_directory(src_path) is scheduled.
\* The folder d is new: made empty (content NoFile), its files coming
\* later one by one, or brought in with its files
WatchDirCreate(d, content) ==
  /\ d # WatchFolder
  /\ \A p \in DOMAIN fs : InsideDir(p, d) => fs[p] = NoFile
  /\ fs' = [p \in DOMAIN fs |-> IF InsideDir(p, d) THEN content ELSE fs[p]]
  /\ Spawn(NewScan(d))

\* the path p of a file of directory old once old is renamed to new
Rebase(p, old, new) == new \o SubSeq(p, Len(old) + 1, Len(p))

\* on_moved of a directory: process_directory(dest_path) is scheduled.
\* The folder old, which holds a file, is renamed to new, which did not
\* exist
WatchDirMove(old, new) ==
  /\ old # WatchFolder /\ new # WatchFolder /\ old # new
  /\ \E p \in DOMAIN fs : InsideDir(p, old) /\ fs[p] # NoFile
  /\ \A p \in DOMAIN fs : InsideDir(p, new) => fs[p] = NoFile
  /\ \A p \in DOMAIN fs :
       (InsideDir(p, old) /\ fs[p] # NoFile) => Rebase(p, old, new) \in DOMAIN fs
  /\ fs' = [p \in DOMAIN fs |->
             IF InsideDir(p, old) THEN NoFile
             ELSE IF \E q \in DOMAIN fs : /\ InsideDir(q, old)
                                          /\ Rebase(q, old, new) = p
             THEN fs[CHOOSE q \in DOMAIN fs : /\ InsideDir(q, old)
                                             /\ Rebase(q, old, new) = p]
             ELSE fs[p]]
  /\ Spawn([NewScan(new) EXCEPT !.src = old])

DirNext ==
  \/ \E p \in AllFiles, c \in Contents : WatchCreate(p, c)
  \/ \E d \in Dirs, content \in Contents \cup {NoFile} :
       WatchDirCreate(d, content)
  \/ \E old \in Dirs, new \in Dirs : WatchDirMove(old, new)
  \/ \E i \in 1..MaxTasks : ScanWalk(i)
  \/ \E i \in 1..MaxTasks : ScanSweep(i)
  \/ \E i \in 1..MaxTasks : StepLookup(i)
  \/ \E i \in 1..MaxTasks, fail \in Failures : StepParse(i, fail)
  \/ \E i \in 1..MaxTasks : StepUpsert(i)

DirSpec == DirInit /\ [][DirNext]_vars

\* ------------------------------------------------- the handler on its own
\* FallbackSpec: a DocumentHandler that LocalDocumentWatcher.start has not
\* prepared receives notifications on an observer thread on which no loop
\* runs: its loop is None as __init__ left it, or set_loop gave it a loop
\* that is not running.  Whatever loop runs a coroutine runs it on.

FallbackInit ==
  /\ fs = [p \in Files |-> NoFile]
  /\ store = {}
  /\ phase \in {"unbound", "detached"}
  /\ pending = NoEvent
  /\ last = NoOp
  /\ tasks = <<>>
  /\ events = 0

\* some task takes its next step on the loop that runs it
ConcStep ==
  \E i \in 1..MaxTasks :
    \/ StepLookup(i)
    \/ StepDeleteByPath(i)
    \/ \E fail \in Failures : StepParse(i, fail)
    \/ StepUpsert(i)
    \/ StepDelete(i)
    \/ StepGet(i)

FallbackSpec == FallbackInit /\ [][ConcNext]_vars /\ WF_vars(ConcStep)

\* ------------------------------------------------------------- shutdown
\* ShutdownSpec: the concurrent engine with the two ways the watcher ends.
\* An application that keeps its loop running calls
\* LocalDocumentWatcher.stop; the watcher service leaves its sleep loop
\* after a signal, stops the watcher and returns from main.

\* LocalDocumentWatcher.stop called from the loop: observer.stop and
\* observer.join; no notification is dispatched afterwards, the loop goes
\* on running the tasks it has
ConcStop ==
  /\ phase = "watching"
  /\ phase' = "stopped"
  /\ UNCHANGED <<fs, store, pending, last, tasks, events>>

\* watch_service after SIGTERM / SIGINT: app.running is False, the next
\* wake-up of WatcherApp.start leaves the while loop, stop() joins the
\* observer, start() and main() return without another await, and
\* asyncio.run cancels every task the loop still holds: each gets
\* CancelledError at the await it is suspended at, which the handlers'
\* "except Exception" does not catch
Shutdown ==
  /\ phase = "watching"
  /\ phase' = "exited"
  /\ tasks' = <<>>
  /\ last' = [NoOp EXCEPT !.op = "shutdown", !.pre = store,
                          !.cancelled = tasks]
  /\ UNCHANGED <<fs, store, pending, events>>

ShutdownNext ==
  \/ ConcNext
  \/ ConcStop
  \/ Shutdown

ShutdownSpec == ConcInit /\ [][ShutdownNext]_vars

\* ------------------------------------------------------------ the store API
\* StoreSpec: one call of the document repository on a store, the store
\* and the arguments being drawn from bounded sets.  A store holds at most
\* one record for each of two files, as the pipeline writes it, with the
\* summaries set_summary has added to it; the ids are distinct.

StorePaths == {FileX, FileZ}

Lengths == 1..MaxLength

Summaries == {<<"a">>, <<"b">>}

\* the summaries a stored document starts with
InitialMaps == UNION {[L -> {<<"a">>}] : L \in SUBSET Lengths}

\* the stored documents the file at p may have
RecordsFor(p) ==
  {Stored(Enriched(Parse(p, c)), m) : c \in Contents, m \in InitialMaps}

Stores ==
  {{}} \cup {{r} : r \in RecordsFor(FileX) \cup RecordsFor(FileZ)}
       \cup UNION {{{r, q} : q \in {y \in RecordsFor(FileZ) : y.id # r.id}} :
                   r \in RecordsFor(FileX)}

\* documents as process_file hands them to upsert
Documents == {Enriched(Parse(p, c)) : p \in StorePaths, c \in Contents}

\* documents without an id (ParsedDocument.id defaults to "")
NewDocuments == {[d EXCEPT !.id = <<>>] : d \in Documents}

\* values of uuid.uuid4().hex
Uuids == {<<"uuid", 1>>, <<"uuid", 2>>}

Ids == {MD5(TextOf(c)) : c \in Contents} \cup Uuids

TopicArgs == {NoneArg, <<>>} \cup {<<"t">> \o TextOf(c) : c \in Contents}

KeywordArgs == {NoneArg, <<>>} \cup {<<"k">> \o TextOf(c) : c \in Contents}

\* the orders in which a cursor may return the documents of S
Perms(S) ==
  {s \in [1..Cardinality(S) -> S] :
     \A i \in DOMAIN s, j \in DOMAIN s : i # j => s[i] # s[j]}

NoCall ==
  [op |-> "none", doc |-> NoDoc, id |-> <<>>, length |-> 0,
   summary |-> <<>>, topic |-> NoneArg, keyword |-> NoneArg, pre |-> {},
   error |-> "none", result |-> <<>>, found |-> {}, listed |-> <<>>,
   newest |-> <<>>, src |-> <<>>, dest |-> <<>>, outcome |-> "none"]

StoreInit ==
  /\ fs = [p \in Files |-> NoFile]
  /\ store \in Stores
  /\ phase = "stopped"
  /\ pending = NoEvent
  /\ last = NoCall
  /\ tasks = <<>>
  /\ events = 0

\* upsert(doc); uuid4 is taken to return an id no stored document has
CallUpsert(doc, uuid) ==
  /\ last = NoCall
  /\ uuid \notin IdsOf(store)
  /\ LET res == StoreUpsert(store, doc, uuid)
     IN /\ store' = res.store
        /\ last' = [NoCall EXCEPT !.op = "upsert", !.doc = doc,
                                  !.result = res.id, !.pre = store]
  /\ UNCHANGED <<fs, phase, pending, tasks, events>>

\* set_summary(doc_id, length, summary)
CallSetSummary(id, length, summary) ==
  /\ last = NoCall
  /\ store' = SetSummary(store, id, length, summary)
  /\ last' = [NoCall EXCEPT !.op = "set_summary", !.id = id,
                            !.length = length, !.summary = summary,
                            !.pre = store]
  /\ UNCHANGED <<fs, phase, pending, tasks, events>>

\* query(topic, keyword), iterated to its end
CallQuery(topic, keyword) ==
  /\ last = NoCall
  /\ LET res == Query(store, topic, keyword)
     IN last' = [NoCall EXCEPT !.op = "query", !.topic = topic,
                               !.keyword = keyword, !.pre = store,
                               !.error = res.error, !.found = res.result]
  /\ UNCHANGED <<fs, store, phase, pending, tasks, events>>

\* list_meta(), iterated to its end, on its own or right after an upsert;
\* no stored document has an "uploaded_at" field (upsert stores
\* ParsedDocument.model_dump()), so the sort leaves the order open
CallListMeta(order) ==
  /\ last.op \in {"none", "upsert"}
  /\ last' = [NoCall EXCEPT !.op = "list_meta", !.pre = store,
                            !.listed = order,
                            !.newest = IF last.op = "upsert"
                                       THEN last.result ELSE <<>>]
  /\ UNCHANGED <<fs, store, phase, pending, tasks, events>>

\* handle_moved_file(src, dest) on a store that has a record for src, run
\* to its end
CallMoved(src, dest) ==
  /\ last = NoCall
  /\ src # dest
  /\ \E id \in IdsByPath(store, src) :
       LET res == HandleMovedFile(store, fs, src, dest, id, "none")
       IN /\ store' = res.store
          /\ last' = [NoCall EXCEPT !.op = "handle_moved_file", !.id = id,
                                    !.src = src, !.dest = dest,
                                    !.outcome = res.outcome, !.pre = store]
  /\ UNCHANGED <<fs, phase, pending, tasks, events>>

StoreNext ==
  \/ \E doc \in Documents \cup NewDocuments, uuid \in Uuids :
       CallUpsert(doc, uuid)
  \/ \E id \in Ids, length \in Lengths, summary \in Summaries :
       CallSetSummary(id, length, summary)
  \/ \E topic \in TopicArgs, keyword \in KeywordArgs :
       CallQuery(topic, keyword)
  \/ \E order \in Perms(ListMeta(store)) : CallListMeta(order)
  \/ \E src \in Files, dest \in Files : CallMoved(src, dest)

StoreSpec == StoreInit /\ [][StoreNext]_vars

\* ------------------------------------------------------------ properties
RecordsAt(st, p) == {r \in st : r.path = p}

\* the extension of p has no registered parser
Unregistered(p) == SuffixOf[p] \notin REGISTRY

\* C1. Idempotent re-ingestion: when the create flow process_file(p, False)
\* has just run twice in sequence on the unchanged file p, p having a
\* supported extension and neither parse nor enrichment failing, exactly
\* one record has path p and the second run wrote nothing to the store.
C1_IdempotentReingestion ==
  (/\ CreatePath(last) # <<>>
   /\ ~Unregistered(CreatePath(last))
   /\ last.prevOutcome \in {"ingested", "skipped"}
   /\ last.outcome \in {"ingested", "skipped"})
  => /\ store = last.pre
     /\ Cardinality(RecordsAt(store, CreatePath(last))) = 1

\* C2. Path uniqueness: no two store records have the same path.
C2_PathUniqueness ==
  \A r \in store, q \in store : r.path = q.path => r = q

\* C3. Force-update replaces, not duplicates: after process_file(p, True)
\* has ingested the changed content of a file that had a record, exactly
\* one record has path p, it holds the new text under the hash of the new
\* text, and no record stored for p before is left.
C3_Pre ==
  /\ last.op = "process_file"
  /\ last.force
  /\ last.outcome = "ingested"
  /\ RecordsAt(last.pre, last.path) # {}
  /\ \A r \in RecordsAt(last.pre, last.path) : r.text # TextOf(fs[last.path])

C3_ForceUpdateReplaces ==
  C3_Pre =>
    /\ Cardinality(RecordsAt(store, last.path)) = 1
    /\ \A r \in RecordsAt(store, last.path) :
         /\ r.text = TextOf(fs[last.path])
         /\ r.id = MD5(TextOf(fs[last.path]))
    /\ \A r \in RecordsAt(last.pre, last.path) :
         r \notin store /\ r.id \notin IdsOf(store)

C3_Witness == C3_Pre /\ Cardinality(store) >= 1

\* C4. Move preserves identity: after handle_moved_file(src, dest) on a
\* store holding a record with path src, the number of records is
\* unchanged, every record that had path src keeps its id and has path
\* dest and the basename of dest as filename, and no record has path src.
C4_MovePreservesIdentity ==
  (/\ last.op = "handle_moved_file"
   /\ RecordsAt(last.pre, last.path) # {})
  => /\ Cardinality(store) = Cardinality(last.pre)
     /\ \A r \in RecordsAt(last.pre, last.path) :
          \E q \in store : /\ q.id = r.id
                           /\ q.path = last.dest
                           /\ q.filename = PathName(last.dest)
     /\ RecordsAt(store, last.path) = {}

\* C5. Move with no prior record falls back to create: after
\* handle_moved_file(src, dest) on a store holding no record with path
\* src, dest having a supported extension and neither parse nor enrichment
\* failing, a newly created record has path dest and none has path src.
C5_MoveFallsBackToCreate ==
  (/\ last.op = "handle_moved_file"
   /\ RecordsAt(last.pre, last.path) = {}
   /\ ~Unregistered(last.dest)
   /\ last.outcome \notin {"parse_error", "enrich_error"})
  => /\ \E r \in RecordsAt(store, last.dest) : r \notin last.pre
     /\ RecordsAt(store, last.path) = {}

\* C6. Orphan reconciliation: after a bulk scan of a directory that holds
\* only file X, the records of a vanished file Y of that directory are
\* deleted and the records of X are what they were before the scan.
C6_Case(X, Y) ==
  /\ last.op = "process_directory"
  /\ last.files = {X}
  /\ InsideDir(Y, last.path)
  /\ fs[Y] = NoFile
  /\ RecordsAt(last.before, X) # {}
  /\ RecordsAt(last.before, Y) # {}

C6_OrphanReconciliation ==
  \A X \in Files, Y \in Files :
    C6_Case(X, Y) =>
      /\ RecordsAt(store, Y) = {}
      /\ RecordsAt(store, X) = RecordsAt(last.before, X)

C6_Witness == \E X \in Files, Y \in Files : C6_Case(X, Y)

\* C7. The reconciliation sweep of a scan of directory D leaves in the
\* store, unchanged, every record whose file still exists and every record
\* whose path is not located inside D.
C7_SweepDeletesOnlyOrphans ==
  last.op = "process_directory" =>
    \A r \in last.pre :
      (fs[r.path] # NoFile \/ ~InsideDir(r.path, last.path)) => r \in store

\* C8. Enrichment failure leaves no partial record: a create or update
\* flow whose enrichment failed added nothing to the store and leaves no
\* record with the file's path; and every stored record carries the
\* keywords, topics and summary of a successful enrichment of its text.
C8_Failed ==
  /\ last.op \in {"process_file", "handle_moved_file"}
  /\ last.outcome = "enrich_error"

C8_NoPartialRecord ==
  /\ C8_Failed =>
       /\ store \subseteq last.pre
       /\ RecordsAt(store, IF last.op = "process_file"
                           THEN last.path ELSE last.dest) = {}
  /\ \A r \in store :
       /\ r.keywords = ExtractDocumentInfo(r.text).keywords
       /\ r.topics = ExtractDocumentInfo(r.text).topics
       /\ r.summary = ExtractDocumentInfo(r.text).summary
       /\ r.keywords # <<>> /\ r.topics # <<>>

C8_Witness == C8_Failed /\ fs[last.path] # NoFile /\ store # {}

\* C9. Unsupported extension is inert: process_file on a file whose
\* lower-cased extension is not registered, by a create or a modify event,
\* adds no record and ends before the parser and the enrichment are
\* called, inside the handler.
C9_Case ==
  /\ last.op = "process_file"
  /\ Unregistered(last.path)

C9_UnsupportedIsInert ==
  C9_Case =>
    /\ last.outcome \in {"skipped", "unsupported"}
    /\ store \subseteq last.pre

C9_Witness == C9_Case /\ fs[last.path] # NoFile /\ last.outcome = "unsupported"

\* C10. No orphaned records when files disappear: once every dispatched
\* task has completed, no store record has the path of a file that is no
\* longer in the watch folder.
C10_NoOrphansAtQuiescence ==
  tasks = <<>> => \A r \in store : fs[r.path] # NoFile

\* C11. End-to-end liveness: once a file with a supported extension has
\* been added, the store eventually contains exactly one record with the
\* file's name, non-empty text and populated keywords, topics and summary,
\* and keeps it.  As stated: whatever other files are added.
Added(p) == fs[p] # NoFile /\ Supported(p)

Landed(p) ==
  LET named == {r \in store : r.filename = NameOf[p]}
  IN /\ Cardinality(named) = 1
     /\ \A r \in named : /\ r.text # <<>>
                          /\ r.keywords # <<>>
                          /\ r.topics # <<>>
                          /\ r.summary # <<>>

SameTextElsewhere(p) ==
  \E q \in Files \ {p} : Supported(q) /\ fs[q] = fs[p]

C12_NoDispatchAfterStop ==
  phase = "stopped" => pending = NoEvent /\ last = NoOp /\ tasks = <<>>

\* stopped after having watched, and a stored file was deleted since
C12_Witness ==
  /\ phase = "stopped"
  /\ pending = NoEvent
  /\ \E r \in store : fs[r.path] = NoFile

\* C13. The observer thread never waits for an ingestion: every task in
\* flight was handed over by a callback that has already returned.
C13_ObserverNeverBlocks ==
  \A i \in 1..Len(tasks) : ~tasks[i].waited

\* a notification was dispatched while an earlier one's task was still
\* between its parse and its store write
C13_Witness ==
  /\ Len(tasks) = 2
  /\ tasks[1].pc = "upsert"
  /\ tasks[2].pc = "lookup"
  /\ ~tasks[1].waited /\ ~tasks[2].waited

\* C14. File-level failures are isolated in a bulk scan: whichever files
\* fail, every other ingestible file of the walk has been attempted (it has
\* a record at its path or under its content id, or the record that made
\* the scan skip it was taken over under the same id), and the
\* reconciliation sweep has run (no record under the scanned directory is
\* left at a path the walk did not see).
C14_Attempted(p) ==
  \/ RecordsAt(last.pre, p) # {}
  \/ MD5(TextOf(fs[p])) \in IdsOf(last.pre)
  \/ \E r \in last.before : r.path = p /\ r.id \in IdsOf(last.pre)

C14_FailuresIsolated ==
  last.op = "process_directory" =>
    /\ \A p \in last.files \ last.failed : Supported(p) => C14_Attempted(p)
    /\ \A r \in store : StartsWith(r.path, last.path) => r.path \in last.files

\* a scan in which one file failed and a sibling was newly ingested
C14_Witness ==
  /\ last.op = "process_directory"
  /\ last.failed # {}
  /\ \E p \in last.files \ last.failed :
       /\ RecordsAt(last.before, p) = {}
       /\ RecordsAt(store, p) # {}

\* C15. Delete handling: after handle_deleted_file(p) no record has path
\* p and every record with another path is unchanged; when no record had
\* path p the store is unchanged; handling the same delete once more
\* changes nothing.
C15_DeleteHandling ==
  last.op = "handle_deleted_file" =>
    /\ RecordsAt(store, last.path) = {}
    /\ {r \in store : r.path # last.path}
         = {r \in last.pre : r.path # last.path}
    /\ RecordsAt(last.pre, last.path) = {} => store = last.pre
    /\ \A id \in IdsByPath(store, last.path) \cup {<<>>} :
         HandleDeletedFile(store, last.path, id).store = store

\* C16. Content-hash identity: the id a parser assigns depends on the
\* extracted text only; when a file at p2 is ingested while the store holds
\* the record of a file at another path p1 with the same extracted text,
\* exactly one record has that id afterwards, its path is p2, and no record
\* with path p1 remains.
C16_IngestedFrom(p1) ==
  /\ last.op = "process_file"
  /\ last.outcome = "ingested"
  /\ p1 # last.path
  /\ Cardinality(RecordsAt(last.pre, p1)) = 1
  /\ \A r \in RecordsAt(last.pre, p1) : r.text = TextOf(fs[last.path])

C16_HashOfTextOnly ==
  \A p \in Files, q \in Files, c \in Contents :
    Parse(p, c).id = Parse(q, c).id

C16_ContentHashIdentity ==
  /\ C16_HashOfTextOnly
  /\ \A p1 \in Files :
       C16_IngestedFrom(p1) =>
         LET same == {r \in store : r.id = MD5(TextOf(fs[last.path]))}
         IN /\ Cardinality(same) = 1
            /\ \A r \in same : r.path = last.path
            /\ RecordsAt(store, p1) = {}

C16_Witness ==
  \E p1 \in Files : C16_IngestedFrom(p1) /\ Cardinality(store) = 1

\* C17. upsert replaces by id as a whole and is idempotent: after
\* upsert(r) with a non-empty id exactly one record has that id and it
\* equals r, the records with other ids are unchanged, and a second
\* upsert(r) leaves the store as it is; a document with an empty id is
\* stored under a returned id that no stored record had.
C17_UpsertReplaces ==
  last.op = "upsert" =>
    LET r == last.doc
        id == last.result
    IN /\ {x \in store : x.id # id} = {x \in last.pre : x.id # id}
       /\ r.id # <<>> =>
            /\ id = r.id
            /\ {x \in store : x.id = id} = {r}
            /\ \A uuid \in Uuids : StoreUpsert(store, r, uuid).store = store
       /\ r.id = <<>> =>
            /\ id # <<>>
            /\ id \notin IdsOf(last.pre)
            /\ {x \in store : x.id = id} = {[r EXCEPT !.id = id]}

\* the upsert replaced a record that differed from r, next to another record
C17_Witness ==
  /\ last.op = "upsert"
  /\ \E x \in last.pre : x.id = last.doc.id /\ x \notin store
  /\ \E x \in last.pre : x.id # last.doc.id

\* C18. query has OR semantics: with at least one filter given it yields
\* exactly the stored records whose topics hold topic or whose keywords hold
\* keyword, each with its text blanked; with neither given it fails with an
\* invalid-argument error and yields nothing.
C18_QueryOrSemantics ==
  last.op = "query" =>
    IF last.topic = NoneArg /\ last.keyword = NoneArg
    THEN last.error = "ValueError" /\ last.found = {}
    ELSE /\ last.error = "none"
         /\ {x.id : x \in last.found}
              = {r.id : r \in {y \in last.pre :
                                \/ Contains(y.topics, last.topic)
                                \/ Contains(y.keywords, last.keyword)}}
         /\ \A x \in last.found : x.text = <<>>

\* C19. set_summary on an existing id changes only the entry for that
\* length in that record's summaries; on an id that is not stored it
\* changes nothing.
C19_SetSummaryFrame ==
  last.op = "set_summary" =>
    /\ {x \in store : x.id # last.id} = {x \in last.pre : x.id # last.id}
    /\ IdsOf(store) = IdsOf(last.pre)
    /\ Cardinality(store) = Cardinality(last.pre)
    /\ last.error = "none"
    /\ \A old \in last.pre, new \in store :
         old.id = last.id /\ new.id = last.id =>
           /\ AsParsedDocument(new) = AsParsedDocument(old)
           /\ DOMAIN SummariesOf(new)
                = DOMAIN SummariesOf(old) \cup {last.length}
           /\ SummariesOf(new)[last.length] = last.summary
           /\ \A l \in DOMAIN SummariesOf(old) \ {last.length} :
                SummariesOf(new)[l] = SummariesOf(old)[l]

\* an entry was overwritten in a record that has an entry for another
\* length, next to another record
C19_Witness ==
  /\ last.op = "set_summary"
  /\ \E old \in last.pre :
       /\ old.id = last.id
       /\ last.length \in DOMAIN SummariesOf(old)
       /\ SummariesOf(old)[last.length] # last.summary
       /\ DOMAIN SummariesOf(old) # {last.length}
  /\ \E x \in store : x.id # last.id

\* C20. list_meta yields every stored record exactly once, its text
\* blanked and every other field intact, the most recently uploaded record
\* first.
C20_ListMetaNewestFirst ==
  last.op = "list_meta" =>
    /\ Len(last.listed) = Cardinality(last.pre)
    /\ {last.listed[i].id : i \in DOMAIN last.listed} = IdsOf(last.pre)
    /\ \A i \in DOMAIN last.listed :
         \A r \in last.pre :
           r.id = last.listed[i].id =>
             /\ last.listed[i].text = <<>>
             /\ AsParsedDocument(last.listed[i])
                  = AsParsedDocument([r EXCEPT !.text = <<>>])
             /\ SummariesOf(last.listed[i]) = SummariesOf(r)
    /\ last.newest # <<>> => last.listed[1].id = last.newest

\* C25. Delete-before-parse on forced update: when process_file(p, True)
\* finds a record for p and then stops at an unsupported extension, a parse
\* failure or an enrichment failure, no record has path p afterwards, the
\* other records are as before, and nothing is scheduled to retry.
C25_Case ==
  /\ last.op = "process_file"
  /\ last.force
  /\ RecordsAt(last.pre, last.path) # {}
  /\ last.outcome \in {"unsupported", "parse_error", "enrich_error"}

C25_DeleteBeforeParse ==
  C25_Case =>
    /\ RecordsAt(store, last.path) = {}
    /\ store = last.pre \ RecordsAt(last.pre, last.path)
    /\ pending = NoEvent
    /\ tasks = <<>>

C25_Witness ==
  /\ C25_Case
  /\ last.outcome = "enrich_error"
  /\ store # {}

\* C24. Move is a metadata-only mutation: when a record exists for src,
\* handle_moved_file(src, dest) neither parses nor enriches, and the record
\* afterwards differs from the record before only in path and filename; its
\* id, text, metadata, keywords, topics, summary and every summary written
\* by set_summary are unchanged.
C24_MoveIsMetadataOnly ==
  last.op = "handle_moved_file" =>
    /\ last.outcome = "moved"
    /\ \A old \in last.pre :
         old.id = last.id =>
           \E new \in store :
             /\ new.id = old.id
             /\ new.path = last.dest
             /\ new.filename = NameOf[last.dest]
             /\ new.text = old.text
             /\ new.metadata = old.metadata
             /\ new.keywords = old.keywords
             /\ new.topics = old.topics
             /\ new.summary = old.summary
             /\ SummariesOf(new) = SummariesOf(old)

\* C29. Scan completeness: after a bulk scan of a directory in which no
\* parse and no enrichment failed, every file under it with a supported
\* extension has exactly one record whose path is the file's path, whatever
\* the contents of the files.
C29_ScanCompleteness ==
  (last.op = "process_directory" /\ last.failed = {}) =>
    \A p \in last.files :
      Supported(p) => Cardinality(RecordsAt(store, p)) = 1

\* C30. Bulk scan is a fixpoint: once process_directory(D) has completed
\* with no parse or enrichment failure, a second process_directory(D) on
\* the unchanged directory writes nothing and deletes nothing: each
\* process_file skips or meets an unsupported file, the sweep removes no
\* record, and the store after the second scan equals the store before it.
C30_NoFailure == [p \in Files |-> "none"]

C30_ScanIsFixpoint ==
  (last.op = "process_directory" /\ last.failed = {}) =>
    /\ \A p \in last.files :
         /\ ProcessFile(store, fs, p, FALSE, "none").outcome
              \in {"skipped", "unsupported"}
         /\ ProcessFile(store, fs, p, FALSE, "none").store = store
    /\ Cleanup(store, last.path, last.files) = store
    /\ \A order \in WalkOrders[last.files] :
         Cleanup(ScanFiles(store, fs, order, C30_NoFailure).store,
                 last.path, last.files) = store

\* C22. Unbound-context fallback: a coroutine handed off while the handler
\* has no loop and no loop runs on the calling thread is run to its end,
\* and _run_coroutine returns: the task it made does not stay in flight.
C22_UnboundFallbackCompletes ==
  [](phase = "unbound" /\ tasks # <<>> => <>(tasks = <<>>))

\* C23. Graceful drain: no task in flight is cancelled part-way, neither
\* by LocalDocumentWatcher.stop nor by the shutdown of the watcher service
\* after a stop signal: when the service has shut down, every task that
\* had been scheduled has run to its end.
C23_GracefulDrain ==
  /\ last.op = "shutdown" => last.cancelled = <<>>
  /\ phase = "stopped" => last.cancelled = <<>>

\* C21. Startup ordering: the loop is set in the handler before the
\* startup scan, and the observer is scheduled and started only after the
\* scan of the watch folder, its sweep included, has completed: while the
\* scan runs no notification has been dispatched and no task but the scan
\* is in flight, and once notifications are dispatched the scan has ended.
C21_StartupOrdering ==
  /\ phase = "scanning" =>
       /\ LoopSet
       /\ events = 0
       /\ \A i \in 1..Len(tasks) : tasks[i].dir = WatchFolder
  /\ (events > 0 \/ phase = "watching") =>
       /\ last.op = "process_directory"
       /\ last.path = WatchFolder
       /\ \A i \in 1..Len(tasks) : tasks[i].dir = <<>>

\* a file added after start() was ingested from a notification
C21_Witness ==
  /\ phase = "watching"
  /\ events > 0
  /\ tasks = <<>>
  /\ \E r \in store : r.path \notin last.files

\* C26. No creation is lost between scanning and watching: every file with
\* a supported extension that is in the watch folder once start() has
\* begun, whenever it was added, eventually has a record (at its path, or
\* under the id of its content) with no further filesystem event.
C26_Recorded(p) ==
  \/ RecordsAt(store, p) # {}
  \/ \E r \in store : r.id = MD5(TextOf(fs[p]))

C26_NoCreationLost ==
  \A p \in Files :
    [](phase # "stopped" /\ Added(p) => <>C26_Recorded(p))

\* C27. The sweep of a directory scan does not undo concurrent live
\* ingestion: a record that a task other than the scan has written for a
\* file inside the scanned directory, the file being on disk, is still in
\* the store when process_directory has completed.
C27_SweepKeepsLiveIngestion ==
  last.op = "process_directory" =>
    \A r \in last.pre :
      (InsideDir(r.path, last.path) /\ r.path \in last.disk) => r \in last.post

\* C28. Directory move leaves no stale paths: when the process_directory
\* scheduled for a directory renamed from old to new has completed, scan
\* and sweep, no record has a path under old (but for a file that has been
\* put there since the rename and is on disk).
C28_NoStalePaths ==
  (last.op = "process_directory" /\ last.src # <<>>) =>
    \A r \in last.post : InsideDir(r.path, last.src) => r.path \in last.disk
====
